---- MODULE Spec2Model ----
(***************************************************************************)
(* Model of the game-play core of Sophie-CHESS: the matchmaking loop       *)
(* (ChessBot.start_playing), the session controller (ChessBot.play_game),  *)
(* the move arbiter (ChessBot._get_best_move) and the post-game pipeline   *)
(* (ChessBot._process_finished_game), together with the collaborators      *)
(* they call (StockfishEngine, ModelManager, ChessComClient,               *)
(* DatabaseManager, GameAnalyzer), and of the life cycle around them in    *)
(* main.py: ChessLearningBot.initialize, start and shutdown, the latter    *)
(* run as a task of its own by the signal handler.  Separate               *)
(* specifications look at start_playing, _get_game_result,                 *)
(* _process_finished_game and wait_for_opponent_move on their own.         *)
(*                                                                         *)
(* python-chess is a library outside the repository.  A position is kept   *)
(* as the record [move_stack, legal, status, cp]: the moves pushed so far, *)
(* the legal-move set, the terminal condition the library reports and the  *)
(* engine's score from White's side.  The position reached by a push is    *)
(* any position the rules allow (Positions); the side to move alternates   *)
(* with every push.                                                        *)
(***************************************************************************)
EXTENDS Integers, Sequences, FiniteSets, TLC

\* ------------------------------------------------------------------ bounds
\* longest move stack explored in one session
MaxPly == 2
\* value at which the call counters of start_playing stop counting
MaxIdle == 2
\* most rows the games table holds when the process starts
MaxPlayed == 10
\* most lines one streamed response delivers before the session's total
\* timeout (ClientTimeout(total=30)) ends the request
MaxLines == 2

\* ---------------------------------------------------------------- constants
None == "None"
WHITE == "white"
BLACK == "black"

\* coordinate-notation moves of the abstraction; the first two are White
\* moves of the start position, the third is a Black reply
Moves == {"e2e4", "d2d4", "e7e5"}

\* a string chess.Move.from_uci rejects
Malformed == "zz"

\* what the remote platform can deliver as the opponent's move
OppStrings == Moves \cup {Malformed}

\* chess_bot.py:161  model_eval - engine_eval > -100
Tolerance == 100

\* chess_bot.py:196  games_played % 10
RetrainEvery == 10

\* stockfish_engine.py:46  score(mate_score=10000) / 100.0
CentiPerPawn == 100

\* evaluations the oracles report for a move (around the tolerance boundary)
MoveEvals == {-101, -100, -99, 0}

\* score of a position from White's side, in centipawns; the sign of an
\* evaluation then varies with the side to move
Scores == {100}

\* lichess_client.py:159  max_wait: int = 60
MaxWait == 60

\* lichess_client.py:185-186  asyncio.sleep(2); timeout += 2
PollInterval == 2

\* chess_com_client.py:148  demo_moves
DemoMoves == {"e2e4", "d2d4", "g1f3", "b1c3", "f1c4"}

Statuses == {"playing", "checkmate", "stalemate", "insufficient",
             "seventyfive", "fivefold"}

Results == {"win", "loss", "draw", "unknown"}

VARIABLES
    pc,             \* control point of start_playing / play_game
    authenticated,  \* ChessComClient.authenticated
    current_games,  \* ChessComClient.current_games (set of game ids)
    model_ready,    \* ModelManager.is_model_ready()
    game_info,      \* play_game: game_info
    board,          \* play_game: board
    moves_history,  \* play_game: moves_history
    move_times,     \* play_game: move_times
    evaluations,    \* play_game: evaluations
    move,           \* play_game: move returned by _get_best_move
    opponent_move,  \* play_game: opponent_move
    arbiter,        \* what the last _get_best_move call saw and did
    sent,           \* moves passed to client.make_move in this session
    log,            \* error messages logged for the current session
    games_played, wins, losses, draws,   \* ChessBot counters
    db,             \* rows of the games table
    processed,      \* records handed to _process_finished_game
    model_updates,  \* calls of ModelManager.update_model
    running,        \* ChessLearningBot.running
    sd_pc,          \* control point of the shutdown task of the signal handler
    client_state,   \* ChessBot.client and its session: none, open, closed
    engine_state,   \* StockfishEngine.engine: none, open, closed
    db_state,       \* DatabaseManager.connection: none, open, closed
    components,     \* attributes of ChessLearningBot set so far, in order
    empty_finds,    \* find_game calls that returned no assignment
    idle_sleeps,    \* asyncio.sleep(10) calls of start_playing
    loop_errors,    \* exceptions caught by start_playing
    backoff_sleeps, \* asyncio.sleep(30) calls of start_playing
    wait            \* LichessClient.wait_for_opponent_move: its locals

vars == <<pc, authenticated, current_games, model_ready, game_info, board,
          moves_history, move_times, evaluations, move, opponent_move,
          arbiter, sent, log, games_played, wins, losses, draws, db,
          processed, model_updates, running, sd_pc, client_state,
          engine_state, db_state, components, empty_finds, idle_sleeps,
          loop_errors, backoff_sleeps, wait>>

\* ------------------------------------------------------------ chess.Board
\* positions the rules allow: no legal move exactly in checkmate and
\* stalemate; the 75-move rule only counts while a legal move exists
Positions ==
    { p \in [legal : SUBSET Moves, status : Statuses, cp : Scores] :
        /\ (p.status \in {"checkmate", "stalemate"} => p.legal = {})
        /\ (p.status \in {"playing", "seventyfive"} => p.legal # {}) }

\* chess.Board(): the start position, White to move
StartBoard ==
    [move_stack |-> <<>>, legal |-> {"e2e4", "d2d4"}, status |-> "playing",
     cp |-> 100]

\* board.turn
Turn(b) == IF Len(b.move_stack) % 2 = 0 THEN WHITE ELSE BLACK

\* board.is_game_over(): any of the five terminal conditions
IsGameOver(b) == b.status # "playing"

IsCheckmate(b) == b.status = "checkmate"

IsDrawCondition(b) ==
    b.status \in {"stalemate", "insufficient", "seventyfive", "fivefold"}

\* chess.Move.from_uci: raises ValueError on a malformed string
ParsesAsUci(s) == s \in Moves

\* board.push(m): boards the push can leave behind.  push does not test
\* legality, it appends to the move stack and passes the turn; None has no
\* squares and makes push raise (empty set).
Push(b, m) ==
    IF m = None THEN {}
    ELSE { [move_stack |-> Append(b.move_stack, m), legal |-> p.legal,
            status |-> p.status, cp |-> p.cp] : p \in Positions }

\* push of a move that is not pseudo-legal may also fail an assertion of
\* the library instead of changing the board
PushMayRaise(b, m) == m = None \/ m \notin b.legal

\* -------------------------------------------------------- StockfishEngine
\* engine.play(board, limit): a legal move, or the call raises
Raise == "raise"
EnginePlay(b) == b.legal \cup {Raise}

\* StockfishEngine.get_best_move: result.move, None when engine.play raised
EngineGetBestMove(play) == IF play = Raise THEN None ELSE play

\* StockfishEngine.evaluate_position: the score relative to the side to
\* move, in pawns; 0.0 when engine.analyse raised
EvaluatePosition(b, fault) ==
    IF fault THEN 0
    ELSE (IF Turn(b) = WHITE THEN b.cp ELSE 0 - b.cp) \div CentiPerPawn

\* StockfishEngine defines get_best_move, evaluate_position and shutdown
\* only: the attribute evaluate_move does not exist on it
EngineHasEvaluateMove == FALSE

\* ----------------------------------------------------------- ModelManager
\* ModelManager.predict_move: one of the legal moves, None when there is
\* none or when prediction failed
PredictMove(b) == b.legal \cup {None}

\* ---------------------------------------------- ChessBot._get_best_move
\* the arbiter's decision from what its collaborators answer:
\*   ready      is_model_ready()
\*   cand       predict_move(board)
\*   meval      evaluation of the candidate
\*   eeval      evaluation of the engine's 0.5 move
\*   play       outcome of engine.play for the 1.0 budget
\*   rnd        random.choice(list(board.legal_moves))
BestMoveRandomWhenEngineFails(b, ready, cand, meval, eeval, play, rnd) ==
    IF ready /\ cand # None /\ cand \in b.legal
    THEN [move |-> rnd, path |-> "random"]
    ELSE IF play = Raise
         THEN [move |-> rnd, path |-> "random"]
         ELSE [move |-> play, path |-> "engine"]

BestMove(b, ready, cand, meval, eeval, play, rnd) ==
    IF ready /\ cand # None /\ cand \in b.legal
    THEN IF ~EngineHasEvaluateMove
         THEN [move |-> rnd, path |-> "random"]
         ELSE IF meval - eeval > 0 - Tolerance
              THEN [move |-> cand, path |-> "model"]
              ELSE [move |-> EngineGetBestMove(play), path |-> "engine"]
    ELSE [move |-> EngineGetBestMove(play), path |-> "engine"]

\* --------------------------------------------- ChessBot._get_game_result
GetGameResultMoverWins(b, our_color) ==
    IF IsCheckmate(b)
    THEN IF Turn(b) = our_color THEN "win" ELSE "loss"
    ELSE IF IsDrawCondition(b) THEN "draw" ELSE "unknown"

GetGameResult(b, our_color) ==
    IF IsCheckmate(b)
    THEN IF \/ (Turn(b) = WHITE /\ our_color = BLACK)
            \/ (Turn(b) = BLACK /\ our_color = WHITE)
         THEN "win"
         ELSE "loss"
    ELSE IF IsDrawCondition(b) THEN "draw" ELSE "unknown"

\* ---------------------------------------------- ChessBot._result_to_pgn
ResultToPgnIgnoresColor(result, our_color) ==
    IF result = "draw" THEN "1/2-1/2"
    ELSE IF result = "win" THEN "1-0"
         ELSE IF result = "loss" THEN "0-1" ELSE "*"

ResultToPgn(result, our_color) ==
    IF result = "draw" THEN "1/2-1/2"
    ELSE IF result = "win"
         THEN (IF our_color = WHITE THEN "1-0" ELSE "0-1")
         ELSE IF result = "loss"
              THEN (IF our_color = WHITE THEN "0-1" ELSE "1-0")
              ELSE "*"

\* ------------------------------------------------- ChessBot._create_pgn
CreatePgn(b, info, result) ==
    [Result |-> ResultToPgn(result, info.color), moves |-> b.move_stack]

\* ----------------------------------- DatabaseManager.get_bot_statistics
RECURSIVE CountResult(_, _)
CountResult(rows, r) ==
    IF rows = <<>> THEN 0
    ELSE (IF Head(rows).result = r THEN 1 ELSE 0) + CountResult(Tail(rows), r)

GetBotStatistics(rows) ==
    [games_played |-> Len(rows), wins |-> CountResult(rows, "win"),
     losses |-> CountResult(rows, "loss"), draws |-> CountResult(rows, "draw")]

\* game ids stored in the games table (game_id TEXT UNIQUE)
StoredIds(rows) == { rows[i].game_id : i \in 1..Len(rows) }

\* the attributes ChessLearningBot.initialize sets, in its order
Components == <<"db_manager", "engine", "analyzer", "model_manager", "bot">>

\* ------------------------------------------------------------------ state
NoGame == [game_id |-> <<"none", 0>>, opponent |-> None, color |-> None]

NoArbiter ==
    [ready |-> FALSE, cand |-> None, meval |-> 0, eeval |-> 0,
     play |-> None, path |-> None, legal |-> {}]

\* elapsed seconds of a decision and of a session (the clock is abstract)
MoveLatency == 1
SessionDuration == 1

\* ChessComClient.find_game: f'game_{len(self.current_games) + 1}'
GameId(n) == <<"game", n>>

\* no call of wait_for_opponent_move is under way
NoWait ==
    [pc |-> "none", client |-> None, last_move |-> None, timeout |-> 0,
     lines |-> 0, result |-> None, own |-> None, by |-> None]

\* state after ChessLearningBot() and setup_signal_handlers, on a fresh
\* database: no component exists yet, initialize is about to run
Init ==
    /\ pc = "init_db"
    /\ authenticated = FALSE
    /\ current_games = {}
    /\ model_ready = FALSE
    /\ game_info = NoGame
    /\ board = StartBoard
    /\ moves_history = <<>>
    /\ move_times = <<>>
    /\ evaluations = <<>>
    /\ move = None
    /\ opponent_move = None
    /\ arbiter = NoArbiter
    /\ sent = <<>>
    /\ log = {}
    /\ db = <<>>
    /\ games_played = 0
    /\ wins = 0
    /\ losses = 0
    /\ draws = 0
    /\ processed = <<>>
    /\ model_updates = 0
    /\ running = FALSE
    /\ sd_pc = "none"
    /\ client_state = "none"
    /\ engine_state = "none"
    /\ db_state = "none"
    /\ components = <<>>
    /\ empty_finds = 0
    /\ idle_sleeps = 0
    /\ loop_errors = 0
    /\ backoff_sleeps = 0
    /\ wait = NoWait

client_vars == <<authenticated, current_games>>
stat_vars == <<games_played, wins, losses, draws, db, processed,
               model_updates>>
session_vars == <<game_info, board, moves_history, move_times, evaluations,
                  move, opponent_move, arbiter, sent, log>>
life_vars == <<running, sd_pc, client_state, engine_state, db_state,
               components>>
loop_vars == <<empty_finds, idle_sleeps, loop_errors, backoff_sleeps>>

\* a call counter that stops counting at MaxIdle
Bump(n) == IF n < MaxIdle THEN n + 1 ELSE n

\* ------------------------------------------ ChessLearningBot.initialize
\* DatabaseManager.initialize: connection and tables
InitDatabase ==
    /\ pc = "init_db"
    /\ db_state' = "open"
    /\ components' = Append(components, "db_manager")
    /\ pc' = "init_engine"
    /\ UNCHANGED <<client_vars, model_ready, session_vars, stat_vars, running,
                   sd_pc, client_state, engine_state, loop_vars, wait>>

InitEngineSkipped ==
    /\ pc = "init_engine"
    /\ pc' = "init_model"
    /\ UNCHANGED <<client_vars, model_ready, session_vars, stat_vars,
                   life_vars, loop_vars, wait>>

\* StockfishEngine.initialize: the engine process is started
InitEngine ==
    /\ pc = "init_engine"
    /\ engine_state' = "open"
    /\ components' = Append(components, "engine")
    /\ pc' = "init_model"
    /\ UNCHANGED <<client_vars, model_ready, session_vars, stat_vars, running,
                   sd_pc, client_state, db_state, loop_vars, wait>>

\* GameAnalyzer(engine) and ModelManager.initialize: the model file may or
\* may not be found
InitModelManager ==
    /\ pc = "init_model"
    /\ model_ready' \in BOOLEAN
    /\ components' = components \o <<"analyzer", "model_manager">>
    /\ pc' = "init_bot"
    /\ UNCHANGED <<client_vars, session_vars, stat_vars, running, sd_pc,
                   client_state, engine_state, db_state, loop_vars, wait>>

\* ChessBot.initialize: the client is created and authenticates, then the
\* counters are seeded from the games table.  The client's initialize raises
\* ValueError when the credentials are missing, get_bot_statistics raises on
\* a closed connection; either way initialize fails
InitBot ==
    /\ pc = "init_bot"
    /\ components' = Append(components, "bot")
    /\ \E credentials \in BOOLEAN :
         IF ~credentials
         THEN /\ UNCHANGED <<client_state, authenticated, games_played, wins,
                             losses, draws>>
              /\ pc' = "init_failed"
         ELSE /\ client_state' = "open"
              /\ authenticated' = TRUE
              /\ IF db_state = "open"
                 THEN /\ games_played' = GetBotStatistics(db).games_played
                      /\ wins' = GetBotStatistics(db).wins
                      /\ losses' = GetBotStatistics(db).losses
                      /\ draws' = GetBotStatistics(db).draws
                      /\ pc' = "start"
                 ELSE /\ UNCHANGED <<games_played, wins, losses, draws>>
                      /\ pc' = "init_failed"
    /\ UNCHANGED <<current_games, model_ready, session_vars, db, processed,
                   model_updates, running, sd_pc, engine_state, db_state,
                   loop_vars, wait>>

\* main: the exception of initialize is logged and sys.exit(1) ends the
\* process
FatalExit ==
    /\ pc = "init_failed"
    /\ pc' = "exited"
    /\ UNCHANGED <<client_vars, model_ready, session_vars, stat_vars,
                   life_vars, loop_vars, wait>>

\* ChessLearningBot.start up to the call of start_playing
Start ==
    /\ pc = "start"
    /\ running' = TRUE
    /\ pc' = "find"
    /\ UNCHANGED <<client_vars, model_ready, session_vars, stat_vars, sd_pc,
                   client_state, engine_state, db_state, components,
                   loop_vars, wait>>

\* ---------------------------------- signal handler, ChessLearningBot.shutdown
ShutdownFromSkipsEngine(stage, cs, es, ds) ==
    IF stage = "bot" /\ cs = "open" THEN "client_close"
    ELSE IF ds = "open" THEN "db_close"
    ELSE "done"

\* the next await of shutdown from a stage on: a component that does not
\* exist (or has no open handle) is skipped without suspending
ShutdownFrom(stage, cs, es, ds) ==
    IF stage = "bot" /\ cs = "open" THEN "client_close"
    ELSE IF stage \in {"bot", "engine"} /\ es = "open" THEN "engine_quit"
    ELSE IF ds = "open" THEN "db_close"
    ELSE "done"

\* SIGINT or SIGTERM: the handler creates a task running shutdown
Signal ==
    /\ pc # "exited"
    /\ sd_pc = "none"
    /\ sd_pc' = "created"
    /\ UNCHANGED <<pc, client_vars, model_ready, session_vars, stat_vars,
                   running, client_state, engine_state, db_state, components,
                   loop_vars, wait>>

\* the task starts: running is cleared and the first existing component is
\* asked to close
ShutdownStart ==
    /\ pc # "exited"
    /\ sd_pc = "created"
    /\ running' = FALSE
    /\ sd_pc' = ShutdownFrom("bot", client_state, engine_state, db_state)
    /\ UNCHANGED <<pc, client_vars, model_ready, session_vars, stat_vars,
                   client_state, engine_state, db_state, components,
                   loop_vars, wait>>

\* ChessBot.shutdown: the client's session is closed
ShutdownBot ==
    /\ pc # "exited"
    /\ sd_pc = "client_close"
    /\ client_state' = "closed"
    /\ sd_pc' = ShutdownFrom("engine", client_state', engine_state, db_state)
    /\ UNCHANGED <<pc, client_vars, model_ready, session_vars, stat_vars,
                   running, engine_state, db_state, components,
                   loop_vars, wait>>

\* StockfishEngine.shutdown: engine.quit() has returned
ShutdownEngine ==
    /\ pc # "exited"
    /\ sd_pc = "engine_quit"
    /\ engine_state' = "closed"
    /\ sd_pc' = ShutdownFrom("db", client_state, engine_state', db_state)
    /\ UNCHANGED <<pc, client_vars, model_ready, session_vars, stat_vars,
                   running, client_state, db_state, components,
                   loop_vars, wait>>

\* DatabaseManager.close: the connection is closed
ShutdownDatabase ==
    /\ pc # "exited"
    /\ sd_pc = "db_close"
    /\ db_state' = "closed"
    /\ sd_pc' = "done"
    /\ UNCHANGED <<pc, client_vars, model_ready, session_vars, stat_vars,
                   running, client_state, engine_state, components,
                   loop_vars, wait>>

\* play_game: our turn = the board's side to move is the assigned color
OurTurn == Turn(board) = game_info.color

FindGameTwoGames ==
    /\ pc = "find"
    /\ IF ~authenticated \/ Cardinality(current_games) >= 2
       THEN /\ pc' = "sleep_idle"
            /\ UNCHANGED <<client_vars, model_ready, session_vars, stat_vars,
                           loop_vars>>
       ELSE LET id == GameId(Cardinality(current_games) + 1) IN
            /\ current_games' = current_games \cup {id}
            /\ game_info' = [game_id |-> id, opponent |-> "TestOpponent",
                             color |-> WHITE]
            /\ board' = StartBoard
            /\ moves_history' = <<>>
            /\ move_times' = <<>>
            /\ evaluations' = <<>>
            /\ move' = None
            /\ opponent_move' = None
            /\ arbiter' = NoArbiter
            /\ sent' = <<>>
            /\ log' = {}
            /\ pc' = "loop"
            /\ UNCHANGED <<authenticated, model_ready, stat_vars, loop_vars>>
    /\ UNCHANGED <<life_vars, wait>>

\* --------------------------------------------- ChessBot.start_playing
\* find_game answers None (not authenticated, or a game is already held),
\* and the loop goes to sleep; otherwise it registers a new game as White
\* and play_game starts on a fresh board
FindGame ==
    /\ pc = "find"
    /\ IF ~authenticated \/ Cardinality(current_games) >= 1
       THEN /\ pc' = "sleep_idle"
            /\ UNCHANGED <<client_vars, model_ready, session_vars, stat_vars,
                           loop_vars>>
       ELSE LET id == GameId(Cardinality(current_games) + 1) IN
            /\ current_games' = current_games \cup {id}
            /\ game_info' = [game_id |-> id, opponent |-> "TestOpponent",
                             color |-> WHITE]
            /\ board' = StartBoard
            /\ moves_history' = <<>>
            /\ move_times' = <<>>
            /\ evaluations' = <<>>
            /\ move' = None
            /\ opponent_move' = None
            /\ arbiter' = NoArbiter
            /\ sent' = <<>>
            /\ log' = {}
            /\ pc' = "loop"
            /\ UNCHANGED <<authenticated, model_ready, stat_vars, loop_vars>>
    /\ UNCHANGED <<life_vars, wait>>

\* asyncio.sleep(10) after an empty find_game
IdleSleep ==
    /\ pc = "sleep_idle"
    /\ pc' = "find"
    /\ UNCHANGED <<client_vars, model_ready, session_vars, stat_vars,
                   life_vars, loop_vars, wait>>

\* ------------------------------------------------- ChessBot.play_game
GetBestMoveNoTerminalTest ==
    /\ pc = "loop"
    /\ OurTurn
    /\ \E cand \in (IF model_ready THEN PredictMove(board) ELSE {None}),
          meval \in MoveEvals, rnd \in board.legal :
         LET evaluated == model_ready /\ cand # None /\ cand \in board.legal
             r == BestMove(board, model_ready, cand, meval, 0, Raise, rnd)
         IN IF evaluated /\ ~EngineHasEvaluateMove
            THEN /\ move' = r.move
                 /\ arbiter' = [ready |-> model_ready, cand |-> cand,
                                meval |-> meval, eeval |-> 0, play |-> None,
                                path |-> r.path, legal |-> board.legal]
                 /\ pc' = "own_move"
            ELSE /\ move' = None
                 /\ arbiter' = [ready |-> model_ready, cand |-> cand,
                                meval |-> IF evaluated THEN meval ELSE 0,
                                eeval |-> 0, play |-> None, path |-> None,
                                legal |-> board.legal]
                 /\ pc' = "await_play"
    /\ UNCHANGED <<client_vars, model_ready, game_info, board, moves_history,
                   move_times, evaluations, opponent_move, sent, log,
                   stat_vars, life_vars, loop_vars, wait>>

GetBestMoveTriesOnBoard ==
    /\ pc = "loop"
    /\ ~IsGameOver(board)
    /\ OurTurn
    /\ \E cand \in (IF model_ready THEN PredictMove(board) ELSE {None}),
          meval \in MoveEvals, rnd \in board.legal :
         LET evaluated == model_ready /\ cand # None /\ cand \in board.legal
             r == BestMove(board, model_ready, cand, meval, 0, Raise, rnd)
         IN IF evaluated /\ ~EngineHasEvaluateMove
            THEN /\ move' = r.move
                 /\ arbiter' = [ready |-> model_ready, cand |-> cand,
                                meval |-> meval, eeval |-> 0, play |-> None,
                                path |-> r.path, legal |-> board.legal]
                 /\ pc' = "own_move"
            ELSE /\ move' = None
                 /\ arbiter' = [ready |-> model_ready, cand |-> cand,
                                meval |-> IF evaluated THEN meval ELSE 0,
                                eeval |-> 0, play |-> None, path |-> None,
                                legal |-> board.legal]
                 /\ pc' = "await_play"
    /\ \E tried \in board.legal : board' \in Push(board, tried)
    /\ UNCHANGED <<client_vars, model_ready, game_info, moves_history,
                   move_times, evaluations, opponent_move, sent, log,
                   stat_vars, life_vars, loop_vars, wait>>

\* own turn: _get_best_move up to its first await.  predict_move and the
\* model's evaluate_move are synchronous; with a usable candidate the call of
\* the engine's evaluate_move raises at once and the except clause answers;
\* otherwise the arbiter suspends in engine.play
GetBestMove ==
    /\ pc = "loop"
    /\ ~IsGameOver(board)
    /\ OurTurn
    /\ \E cand \in (IF model_ready THEN PredictMove(board) ELSE {None}),
          meval \in MoveEvals, rnd \in board.legal :
         LET evaluated == model_ready /\ cand # None /\ cand \in board.legal
             r == BestMove(board, model_ready, cand, meval, 0, Raise, rnd)
         IN IF evaluated /\ ~EngineHasEvaluateMove
            THEN /\ move' = r.move
                 /\ arbiter' = [ready |-> model_ready, cand |-> cand,
                                meval |-> meval, eeval |-> 0, play |-> None,
                                path |-> r.path, legal |-> board.legal]
                 /\ pc' = "own_move"
            ELSE /\ move' = None
                 /\ arbiter' = [ready |-> model_ready, cand |-> cand,
                                meval |-> IF evaluated THEN meval ELSE 0,
                                eeval |-> 0, play |-> None, path |-> None,
                                legal |-> board.legal]
                 /\ pc' = "await_play"
    /\ UNCHANGED <<client_vars, model_ready, game_info, board, moves_history,
                   move_times, evaluations, opponent_move, sent, log,
                   stat_vars, life_vars, loop_vars, wait>>

\* own turn: engine.play returns or raises (it raises on an engine that was
\* shut down) and _get_best_move answers
EnginePlayReturns ==
    /\ pc = "await_play"
    /\ \E play \in (IF engine_state = "open" THEN EnginePlay(board)
                     ELSE {Raise}),
          rnd \in board.legal :
         LET r == BestMove(board, arbiter.ready, arbiter.cand, arbiter.meval,
                           arbiter.eeval, play, rnd)
         IN /\ move' = r.move
            /\ arbiter' = [arbiter EXCEPT !.play = play, !.path = r.path]
    /\ pc' = "own_move"
    /\ UNCHANGED <<client_vars, model_ready, game_info, board, moves_history,
                   move_times, evaluations, opponent_move, sent, log,
                   stat_vars, life_vars, loop_vars, wait>>

\* the record play_game assembles after the loop
GameData ==
    LET result == GetGameResult(board, game_info.color) IN
    [game_id |-> game_info.game_id, opponent |-> game_info.opponent,
     color |-> game_info.color, result |-> result, moves |-> moves_history,
     move_times |-> move_times, evaluations |-> evaluations,
     pgn |-> CreatePgn(board, game_info, result),
     duration |-> SessionDuration]

SessionErrorHandsOff ==
    /\ log' = log \cup {"error_during_game"}
    /\ pc' = "find"
    /\ processed' = Append(processed, GameData)
    /\ db' = Append(db, GameData)
    /\ games_played' = games_played + 1
    /\ draws' = draws + 1
    /\ UNCHANGED <<wins, losses, model_updates>>

\* the except clause of play_game: the error is logged and play_game
\* returns; nothing is handed off, stored or counted
SessionError ==
    /\ log' = log \cup {"error_during_game"}
    /\ pc' = "find"
    /\ UNCHANGED stat_vars

\* evaluate_position: engine.analyse may raise, and does on an engine that
\* was shut down
EvaluationFaults == IF engine_state = "open" THEN BOOLEAN ELSE {TRUE}

OwnMoveSkipsEvaluation ==
    /\ pc = "own_move"
    /\ move_times' = Append(move_times, MoveLatency)
    /\ \/ /\ Len(board.move_stack) < MaxPly
          /\ \E b \in Push(board, move), fault \in EvaluationFaults :
               /\ board' = b
               /\ moves_history' = Append(moves_history, move)
               /\ evaluations' = evaluations
               /\ fault \in BOOLEAN
               /\ sent' = Append(sent, move)
          /\ log' = log
          /\ pc' = "loop"
          /\ UNCHANGED stat_vars
       \/ /\ PushMayRaise(board, move)
          /\ SessionError
          /\ UNCHANGED <<board, moves_history, evaluations, sent>>
    /\ move' = None
    /\ arbiter' = NoArbiter
    /\ UNCHANGED <<client_vars, model_ready, game_info, opponent_move,
                   life_vars, loop_vars, wait>>

\* own turn, second half: record the latency, push the move, record it and
\* its evaluation, submit it.  make_move answers ok (True) or not (False,
\* also when the request raised inside it); play_game does not look at the
\* answer.  A move that push rejects raises.
OwnMoveSubmitting(ok) ==
    /\ pc = "own_move"
    /\ ok \in BOOLEAN
    /\ move_times' = Append(move_times, MoveLatency)
    /\ \/ /\ Len(board.move_stack) < MaxPly
          /\ \E b \in Push(board, move), fault \in EvaluationFaults :
               /\ board' = b
               /\ moves_history' = Append(moves_history, move)
               /\ evaluations' = Append(evaluations, EvaluatePosition(b, fault))
               /\ sent' = Append(sent, move)
          /\ log' = log
          /\ pc' = "loop"
          /\ UNCHANGED stat_vars
       \/ /\ PushMayRaise(board, move)
          /\ SessionError
          /\ UNCHANGED <<board, moves_history, evaluations, sent>>
    /\ move' = None
    /\ arbiter' = NoArbiter
    /\ UNCHANGED <<client_vars, model_ready, game_info, opponent_move,
                   life_vars, loop_vars, wait>>

\* the answer of make_move is discarded: the step is the same relation for
\* both answers, and one of them stands for the call
OwnMove == OwnMoveSubmitting(CHOOSE ok \in BOOLEAN : TRUE)

\* opponent's turn, first half: wait_for_opponent_move answers None (unknown
\* game, no move yet) or the move string the remote delivered
WaitForOpponentMove ==
    /\ pc = "loop"
    /\ ~IsGameOver(board)
    /\ ~OurTurn
    /\ opponent_move' \in
         (IF game_info.game_id \notin current_games THEN {None}
          ELSE OppStrings \cup {None})
    /\ pc' = "opp_move"
    /\ UNCHANGED <<client_vars, model_ready, game_info, board, moves_history,
                   move_times, evaluations, move, arbiter, sent, log,
                   stat_vars, life_vars, loop_vars, wait>>

OpponentMoveDropsMove ==
    /\ pc = "opp_move"
    /\ \/ /\ opponent_move = None
          /\ pc' = "loop"
          /\ UNCHANGED <<board, moves_history, evaluations, log, stat_vars>>
       \/ /\ opponent_move # None
          /\ ~ParsesAsUci(opponent_move)
          /\ log' = log \cup {"invalid_opponent_move"}
          /\ pc' = "finish"
          /\ UNCHANGED <<board, moves_history, evaluations, stat_vars>>
       \/ /\ opponent_move # None
          /\ ParsesAsUci(opponent_move)
          /\ pc' = "loop"
          /\ UNCHANGED <<board, moves_history, evaluations, log, stat_vars>>
    /\ UNCHANGED <<client_vars, model_ready, game_info, move_times, move,
                   opponent_move, arbiter, sent, life_vars, loop_vars, wait>>

OpponentMoveEndsOnNone ==
    /\ pc = "opp_move"
    /\ \/ /\ opponent_move = None
          /\ pc' = "finish"
          /\ UNCHANGED <<board, moves_history, evaluations, log, stat_vars>>
       \/ /\ opponent_move # None
          /\ ~ParsesAsUci(opponent_move)
          /\ log' = log \cup {"invalid_opponent_move"}
          /\ pc' = "finish"
          /\ UNCHANGED <<board, moves_history, evaluations, stat_vars>>
       \/ /\ opponent_move # None
          /\ ParsesAsUci(opponent_move)
          /\ Len(board.move_stack) < MaxPly
          /\ \E b \in Push(board, opponent_move), fault \in EvaluationFaults :
               /\ board' = b
               /\ moves_history' = Append(moves_history, opponent_move)
               /\ evaluations' = Append(evaluations, EvaluatePosition(b, fault))
          /\ log' = log
          /\ pc' = "loop"
          /\ UNCHANGED stat_vars
       \/ /\ opponent_move # None
          /\ ParsesAsUci(opponent_move)
          /\ PushMayRaise(board, opponent_move)
          /\ SessionError
          /\ UNCHANGED <<board, moves_history, evaluations>>
    /\ UNCHANGED <<client_vars, model_ready, game_info, move_times, move,
                   opponent_move, arbiter, sent, life_vars, loop_vars, wait>>

\* opponent's turn, second half: nothing on None; otherwise parse the string
\* (ValueError: log and break), push it without a legality test, record it
\* and its evaluation
OpponentMove ==
    /\ pc = "opp_move"
    /\ \/ /\ opponent_move = None
          /\ pc' = "loop"
          /\ UNCHANGED <<board, moves_history, evaluations, log, stat_vars>>
       \/ /\ opponent_move # None
          /\ ~ParsesAsUci(opponent_move)
          /\ log' = log \cup {"invalid_opponent_move"}
          /\ pc' = "finish"
          /\ UNCHANGED <<board, moves_history, evaluations, stat_vars>>
       \/ /\ opponent_move # None
          /\ ParsesAsUci(opponent_move)
          /\ Len(board.move_stack) < MaxPly
          /\ \E b \in Push(board, opponent_move), fault \in EvaluationFaults :
               /\ board' = b
               /\ moves_history' = Append(moves_history, opponent_move)
               /\ evaluations' = Append(evaluations, EvaluatePosition(b, fault))
          /\ log' = log
          /\ pc' = "loop"
          /\ UNCHANGED stat_vars
       \/ /\ opponent_move # None
          /\ ParsesAsUci(opponent_move)
          /\ PushMayRaise(board, opponent_move)
          /\ SessionError
          /\ UNCHANGED <<board, moves_history, evaluations>>
    /\ UNCHANGED <<client_vars, model_ready, game_info, move_times, move,
                   opponent_move, arbiter, sent, life_vars, loop_vars, wait>>

LoopExitSkipsHandOff ==
    /\ pc = "loop"
    /\ IsGameOver(board)
    /\ pc' = "find"
    /\ UNCHANGED <<client_vars, model_ready, session_vars, stat_vars,
                   life_vars, loop_vars, wait>>

LoopExitAfterTwoMoves ==
    /\ pc = "loop"
    /\ (IsGameOver(board) \/ Len(board.move_stack) >= 2)
    /\ pc' = "finish"
    /\ UNCHANGED <<client_vars, model_ready, session_vars, stat_vars,
                   life_vars, loop_vars, wait>>

\* while not board.is_game_over(): the loop ends on a terminal board
LoopExit ==
    /\ pc = "loop"
    /\ IsGameOver(board)
    /\ pc' = "finish"
    /\ UNCHANGED <<client_vars, model_ready, session_vars, stat_vars,
                   life_vars, loop_vars, wait>>

ProcessFinishedGameRollsBack ==
    /\ pc = "finish"
    /\ processed' = Append(processed, GameData)
    /\ \/ /\ db_state = "open"
          /\ GameData.game_id \notin StoredIds(db)
          /\ db' = Append(db, GameData)
          /\ games_played' = games_played + 1
          /\ wins' = IF GameData.result = "win" THEN wins + 1 ELSE wins
          /\ losses' = IF GameData.result = "loss" THEN losses + 1 ELSE losses
          /\ draws' = IF GameData.result \notin {"win", "loss"}
                      THEN draws + 1 ELSE draws
          /\ log' = log
       \/ /\ db' = db
          /\ UNCHANGED <<games_played, wins, losses, draws>>
          /\ log' = log \cup {"error_during_game"}
    /\ model_updates' = model_updates
    /\ pc' = "find"
    /\ UNCHANGED <<client_vars, model_ready, game_info, board, moves_history,
                   move_times, evaluations, move, opponent_move, arbiter,
                   sent, life_vars, loop_vars, wait>>

\* ------------------------------------- ChessBot._process_finished_game
\* the counters are updated, then save_game inserts the row; a failing
\* insert (database error, closed connection, game_id already stored) raises
\* into play_game's except clause.  analyze_game changes no state;
\* update_model is called when the new count is a multiple of RetrainEvery.
ProcessFinishedGame ==
    /\ pc = "finish"
    /\ processed' = Append(processed, GameData)
    /\ games_played' = games_played + 1
    /\ wins' = IF GameData.result = "win" THEN wins + 1 ELSE wins
    /\ losses' = IF GameData.result = "loss" THEN losses + 1 ELSE losses
    /\ draws' = IF GameData.result \notin {"win", "loss"}
                THEN draws + 1 ELSE draws
    /\ \/ /\ db_state = "open"
          /\ GameData.game_id \notin StoredIds(db)
          /\ db' = Append(db, GameData)
          /\ model_updates' = IF games_played' % RetrainEvery = 0
                              THEN model_updates + 1 ELSE model_updates
          /\ log' = log
       \/ /\ db' = db
          /\ model_updates' = model_updates
          /\ log' = log \cup {"error_during_game"}
    /\ pc' = "find"
    /\ UNCHANGED <<client_vars, model_ready, game_info, board, moves_history,
                   move_times, evaluations, move, opponent_move, arbiter,
                   sent, life_vars, loop_vars, wait>>

Next ==
    \/ InitDatabase
    \/ InitEngine
    \/ InitModelManager
    \/ InitBot
    \/ FatalExit
    \/ Start
    \/ Signal
    \/ ShutdownStart
    \/ ShutdownBot
    \/ ShutdownEngine
    \/ ShutdownDatabase
    \/ FindGame
    \/ IdleSleep
    \/ GetBestMove
    \/ EnginePlayReturns
    \/ OwnMove
    \/ WaitForOpponentMove
    \/ OpponentMove
    \/ LoopExit
    \/ ProcessFinishedGame

Spec == Init /\ [][Next]_vars

\* the steps of the main coroutine (initialize, start_playing, play_game)
MainNext ==
    \/ InitDatabase
    \/ InitEngine
    \/ InitModelManager
    \/ InitBot
    \/ FatalExit
    \/ Start
    \/ FindGame
    \/ IdleSleep
    \/ GetBestMove
    \/ EnginePlayReturns
    \/ OwnMove
    \/ WaitForOpponentMove
    \/ OpponentMove
    \/ LoopExit
    \/ ProcessFinishedGame

\* the steps of the shutdown task once the handler has created it
ShutdownNext ==
    \/ ShutdownStart
    \/ ShutdownBot
    \/ ShutdownEngine
    \/ ShutdownDatabase

\* the event loop runs every coroutine that is ready: sleeps elapse, awaited
\* calls return, a created task gets its turn; signals arrive or not
SpecFair == Spec /\ WF_vars(MainNext) /\ WF_vars(ShutdownNext)

\* ------------------------------------------- _get_game_result on its own
\* move stacks of at most MaxPly moves
BoundedStacks == UNION { [1..n -> Moves] : n \in 0..MaxPly }

\* number of own moves in a stack of n half-moves
OwnMoves(n, color) == IF color = WHITE THEN (n + 1) \div 2 ELSE n \div 2

\* play_game at the end of its loop, for every board and both assigned
\* colors: the inputs of _get_game_result
InitResult ==
    /\ pc = "finish"
    /\ authenticated = TRUE
    /\ current_games = {GameId(1)}
    /\ model_ready \in BOOLEAN
    /\ \E c \in {WHITE, BLACK} :
         game_info = [game_id |-> GameId(1), opponent |-> "TestOpponent",
                      color |-> c]
    /\ \E st \in BoundedStacks, p \in Positions :
         board = [move_stack |-> st, legal |-> p.legal, status |-> p.status,
                  cp |-> p.cp]
    /\ moves_history = board.move_stack
    /\ move_times = [i \in 1..OwnMoves(Len(board.move_stack), game_info.color)
                      |-> MoveLatency]
    /\ evaluations = [i \in 1..Len(board.move_stack) |-> 0]
    /\ move = None
    /\ opponent_move = None
    /\ arbiter = NoArbiter
    /\ sent = <<>>
    /\ log = {}
    /\ db = <<>>
    /\ games_played = 0
    /\ wins = 0
    /\ losses = 0
    /\ draws = 0
    /\ processed = <<>>
    /\ model_updates = 0
    /\ running = TRUE
    /\ sd_pc = "none"
    /\ client_state = "open"
    /\ engine_state = "open"
    /\ db_state = "open"
    /\ components = Components
    /\ empty_finds = 0
    /\ idle_sleeps = 0
    /\ loop_errors = 0
    /\ backoff_sleeps = 0
    /\ wait = NoWait

NextResult == ProcessFinishedGame

SpecResult == InitResult /\ [][NextResult]_vars

\* ------------------------------------------- pieces of initial conditions
\* every component is up and no signal has arrived
ComponentsUp ==
    /\ authenticated = TRUE
    /\ running = TRUE
    /\ sd_pc = "none"
    /\ client_state = "open"
    /\ engine_state = "open"
    /\ db_state = "open"
    /\ components = Components

\* play_game has not run yet
NoSession ==
    /\ game_info = NoGame
    /\ board = StartBoard
    /\ moves_history = <<>>
    /\ move_times = <<>>
    /\ evaluations = <<>>
    /\ move = None
    /\ opponent_move = None
    /\ arbiter = NoArbiter
    /\ sent = <<>>
    /\ log = {}

\* start_playing has made no call yet
NoCalls ==
    /\ empty_finds = 0
    /\ idle_sleeps = 0
    /\ loop_errors = 0
    /\ backoff_sleeps = 0

\* empty games table, counters as seeded from it
FreshStats ==
    /\ db = <<>>
    /\ games_played = 0
    /\ wins = 0
    /\ losses = 0
    /\ draws = 0
    /\ processed = <<>>
    /\ model_updates = 0

\* ---------------------- start_playing on its own, collaborators as black boxes
\* the calls start_playing makes are counted here: empty_finds, idle_sleeps,
\* loop_errors and backoff_sleeps
\* assignments a find_game implementation can return
Assignments ==
    [game_id : {GameId(n) : n \in 1..MaxIdle}, opponent : {"TestOpponent"},
     color : {WHITE, BLACK}]

InitLoop ==
    /\ pc = "find"
    /\ current_games = {}
    /\ model_ready \in BOOLEAN
    /\ ComponentsUp
    /\ NoSession
    /\ NoCalls
    /\ FreshStats
    /\ wait = NoWait

LoopFindGameBusyLoop ==
    /\ pc = "find"
    /\ \/ /\ game_info' \in Assignments
          /\ pc' = "session"
          /\ UNCHANGED loop_vars
       \/ /\ pc' = "find"
          /\ empty_finds' = Bump(empty_finds)
          /\ UNCHANGED <<game_info, idle_sleeps, loop_errors, backoff_sleeps>>
       \/ /\ pc' = "sleep_backoff"
          /\ loop_errors' = Bump(loop_errors)
          /\ UNCHANGED <<game_info, empty_finds, idle_sleeps, backoff_sleeps>>
    /\ UNCHANGED <<client_vars, model_ready, board, moves_history, move_times,
                   evaluations, move, opponent_move, arbiter, sent, log,
                   stat_vars, life_vars, wait>>

\* await self.client.find_game(): an assignment (play_game is entered), None
\* (idle sleep), or an exception (the except clause of start_playing)
LoopFindGame ==
    /\ pc = "find"
    /\ \/ /\ game_info' \in Assignments
          /\ pc' = "session"
          /\ UNCHANGED loop_vars
       \/ /\ pc' = "sleep_idle"
          /\ empty_finds' = Bump(empty_finds)
          /\ UNCHANGED <<game_info, idle_sleeps, loop_errors, backoff_sleeps>>
       \/ /\ pc' = "sleep_backoff"
          /\ loop_errors' = Bump(loop_errors)
          /\ UNCHANGED <<game_info, empty_finds, idle_sleeps, backoff_sleeps>>
    /\ UNCHANGED <<client_vars, model_ready, board, moves_history, move_times,
                   evaluations, move, opponent_move, arbiter, sent, log,
                   stat_vars, life_vars, wait>>

\* asyncio.sleep(10) after an empty find_game, counted
LoopIdleSleep ==
    /\ pc = "sleep_idle"
    /\ pc' = "find"
    /\ idle_sleeps' = Bump(idle_sleeps)
    /\ UNCHANGED <<client_vars, model_ready, session_vars, stat_vars,
                   life_vars, empty_finds, loop_errors, backoff_sleeps, wait>>

LoopPlayGameEscapes ==
    /\ pc = "session"
    /\ \/ /\ pc' = "find"
          /\ UNCHANGED loop_vars
       \/ /\ pc' = "exited"
          /\ loop_errors' = Bump(loop_errors)
          /\ UNCHANGED <<empty_finds, idle_sleeps, backoff_sleeps>>
    /\ UNCHANGED <<client_vars, model_ready, session_vars, stat_vars,
                   life_vars, wait>>

\* await self.play_game(game_info): it returns, or an exception escapes it
\* into the except clause of start_playing
LoopPlayGame ==
    /\ pc = "session"
    /\ \/ /\ pc' = "find"
          /\ UNCHANGED loop_vars
       \/ /\ pc' = "sleep_backoff"
          /\ loop_errors' = Bump(loop_errors)
          /\ UNCHANGED <<empty_finds, idle_sleeps, backoff_sleeps>>
    /\ UNCHANGED <<client_vars, model_ready, session_vars, stat_vars,
                   life_vars, wait>>

\* asyncio.sleep(30) in the except clause, then the next iteration
BackoffSleep ==
    /\ pc = "sleep_backoff"
    /\ pc' = "find"
    /\ backoff_sleeps' = Bump(backoff_sleeps)
    /\ UNCHANGED <<client_vars, model_ready, session_vars, stat_vars,
                   life_vars, empty_finds, idle_sleeps, loop_errors, wait>>

NextLoop ==
    \/ LoopFindGame
    \/ LoopPlayGame
    \/ LoopIdleSleep
    \/ BackoffSleep

SpecLoop == InitLoop /\ [][NextLoop]_vars

\* --------------------------------- _process_finished_game on its own
\* a row stored by an earlier session
EarlierGame(i) ==
    LET info == [game_id |-> <<"earlier", i>>, opponent |-> "TestOpponent",
                 color |-> WHITE]
    IN [game_id |-> info.game_id, opponent |-> info.opponent,
        color |-> info.color, result |-> "draw", moves |-> <<>>,
        move_times |-> <<>>, evaluations |-> <<>>,
        pgn |-> CreatePgn(StartBoard, info, "draw"),
        duration |-> SessionDuration]

\* play_game at the end of its loop after one own move that ended the game,
\* with counters seeded from a table of up to MaxPlayed earlier games
InitPipeline ==
    /\ pc = "finish"
    /\ current_games = {GameId(1)}
    /\ model_ready \in BOOLEAN
    /\ ComponentsUp
    /\ game_info = [game_id |-> GameId(1), opponent |-> "TestOpponent",
                    color |-> WHITE]
    /\ \E p \in Positions :
         /\ p.status # "playing"
         /\ board = [move_stack |-> <<"e2e4">>, legal |-> p.legal,
                     status |-> p.status, cp |-> p.cp]
    /\ moves_history = board.move_stack
    /\ move_times = <<MoveLatency>>
    /\ evaluations = <<EvaluatePosition(board, FALSE)>>
    /\ move = None
    /\ opponent_move = None
    /\ arbiter = NoArbiter
    /\ sent = board.move_stack
    /\ log = {}
    /\ \E n \in 0..MaxPlayed : db = [i \in 1..n |-> EarlierGame(i)]
    /\ games_played = GetBotStatistics(db).games_played
    /\ wins = GetBotStatistics(db).wins
    /\ losses = GetBotStatistics(db).losses
    /\ draws = GetBotStatistics(db).draws
    /\ processed = <<>>
    /\ model_updates = 0
    /\ NoCalls
    /\ wait = NoWait

NextPipeline == ProcessFinishedGame

SpecPipeline == InitPipeline /\ [][NextPipeline]_vars

\* ------------------------------------ wait_for_opponent_move on its own
InitWait ==
    /\ pc = "loop"
    /\ current_games = {GameId(1)}
    /\ model_ready \in BOOLEAN
    /\ ComponentsUp
    /\ NoSession
    /\ NoCalls
    /\ FreshStats
    /\ wait = NoWait

\* the call ends: a move or None goes back to the caller
Returned(r) == [wait EXCEPT !.pc = "returned", !.result = r]

\* a caller enters wait_for_opponent_move of one of the clients.  The
\* ChessComClient answers None at once for a game it does not hold and
\* otherwise goes to sleep; the LichessClient starts polling with timeout 0.
WaitCall ==
    /\ wait.pc = "none"
    /\ \/ \E known \in BOOLEAN :
            wait' = IF known
                    THEN [wait EXCEPT !.pc = "demo_sleep",
                                      !.client = "chesscom"]
                    ELSE [Returned(None) EXCEPT !.client = "chesscom"]
       \/ \E last \in Moves \cup {None}, own \in Moves \cup {None} :
            wait' = [wait EXCEPT !.pc = "request", !.client = "lichess",
                                 !.last_move = last, !.timeout = 0,
                                 !.own = own]
    /\ UNCHANGED <<pc, client_vars, model_ready, session_vars, stat_vars,
                   life_vars, loop_vars>>

\* ChessComClient: asyncio.sleep(2) is over, a demo move is returned
ChessComWait ==
    /\ wait.pc = "demo_sleep"
    /\ \E m \in DemoMoves : wait' = Returned(m)
    /\ UNCHANGED <<pc, client_vars, model_ready, session_vars, stat_vars,
                   life_vars, loop_vars>>

\* LichessClient: the loop test, then session.get: the budget is used up
\* (None), the request raises (caught, None), the answer is not 200 (sleep),
\* or the answer is a stream to read
LichessRequest ==
    /\ wait.pc = "request"
    /\ IF wait.timeout >= MaxWait
       THEN wait' = Returned(None)
       ELSE \/ wait' = Returned(None)
            \/ wait' = [wait EXCEPT !.pc = "sleep"]
            \/ wait' = [wait EXCEPT !.pc = "stream", !.lines = 0]
    /\ UNCHANGED <<pc, client_vars, model_ready, session_vars, stat_vars,
                   life_vars, loop_vars>>

\* LichessClient: async for line in resp.content.  The moves of a streamed
\* state end with a move of the opponent or, while the opponent has not
\* answered, with the bot's own last move.  A line without a new last move
\* is skipped; a line whose last move differs from last_move, or any last
\* move when no last_move was passed, ends the call with that move; the
\* stream ends (sleep); the total timeout of the session expires while
\* reading (caught, None)
LichessLine ==
    /\ wait.pc = "stream"
    /\ \/ /\ wait.lines < MaxLines
          /\ wait' = [wait EXCEPT !.lines = @ + 1]
       \/ /\ wait.lines < MaxLines
          /\ \E m \in OppStrings :
               /\ (wait.last_move = None \/ m # wait.last_move)
               /\ wait' = [Returned(m) EXCEPT !.lines = @ + 1,
                                              !.by = "opponent"]
       \/ /\ wait.lines < MaxLines
          /\ wait.own # None
          /\ (wait.last_move = None \/ wait.own # wait.last_move)
          /\ wait' = [Returned(wait.own) EXCEPT !.lines = @ + 1,
                                                !.by = "bot"]
       \/ wait' = [wait EXCEPT !.pc = "sleep"]
       \/ wait' = Returned(None)
    /\ UNCHANGED <<pc, client_vars, model_ready, session_vars, stat_vars,
                   life_vars, loop_vars>>

LichessSleepKeepsBudget ==
    /\ wait.pc = "sleep"
    /\ wait' = [wait EXCEPT !.pc = "request"]
    /\ UNCHANGED <<pc, client_vars, model_ready, session_vars, stat_vars,
                   life_vars, loop_vars>>

\* LichessClient: asyncio.sleep(2); timeout += 2
LichessSleep ==
    /\ wait.pc = "sleep"
    /\ wait' = [wait EXCEPT !.pc = "request",
                            !.timeout = @ + PollInterval]
    /\ UNCHANGED <<pc, client_vars, model_ready, session_vars, stat_vars,
                   life_vars, loop_vars>>

NextWait ==
    \/ WaitCall
    \/ ChessComWait
    \/ LichessRequest
    \/ LichessLine
    \/ LichessSleep

\* sleeps elapse and an awaited request or read comes back (with data, with
\* the end of the stream or with the timeout error)
SpecWait == InitWait /\ [][NextWait]_vars /\ WF_vars(NextWait)

\* ------------------------------------------------- the process, restarted
\* the process ends (exit, kill, crash) and the program is started again on
\* the same database file: every object in memory is new, the games table
\* keeps its rows
Restart ==
    /\ pc' = "init_db"
    /\ authenticated' = FALSE
    /\ current_games' = {}
    /\ model_ready' = FALSE
    /\ game_info' = NoGame
    /\ board' = StartBoard
    /\ moves_history' = <<>>
    /\ move_times' = <<>>
    /\ evaluations' = <<>>
    /\ move' = None
    /\ opponent_move' = None
    /\ arbiter' = NoArbiter
    /\ sent' = <<>>
    /\ log' = {}
    /\ db' = db
    /\ games_played' = 0
    /\ wins' = 0
    /\ losses' = 0
    /\ draws' = 0
    /\ processed' = <<>>
    /\ model_updates' = 0
    /\ running' = FALSE
    /\ sd_pc' = "none"
    /\ client_state' = "none"
    /\ engine_state' = "none"
    /\ db_state' = "none"
    /\ components' = <<>>
    /\ empty_finds' = 0
    /\ idle_sleeps' = 0
    /\ loop_errors' = 0
    /\ backoff_sleeps' = 0
    /\ wait' = NoWait

NextRestart ==
    \/ InitDatabase
    \/ InitEngine
    \/ InitModelManager
    \/ InitBot
    \/ FatalExit
    \/ Start
    \/ FindGame
    \/ IdleSleep
    \/ GetBestMove
    \/ EnginePlayReturns
    \/ OwnMove
    \/ WaitForOpponentMove
    \/ OpponentMove
    \/ LoopExit
    \/ ProcessFinishedGame
    \/ Restart

SpecRestart == Init /\ [][NextRestart]_vars

\* ------------------------------- the clients' initialize and find_game
\* a new client object of one of the two classes (wait.client names the
\* class); its caller runs initialize first or calls find_game without it
InitFind ==
    /\ pc \in {"client_init", "find"}
    /\ authenticated = FALSE
    /\ current_games = {}
    /\ model_ready \in BOOLEAN
    /\ running = TRUE
    /\ sd_pc = "none"
    /\ client_state = "none"
    /\ engine_state = "open"
    /\ db_state = "open"
    /\ components = SubSeq(Components, 1, 4)
    /\ NoSession
    /\ NoCalls
    /\ FreshStats
    /\ \E c \in {"chesscom", "lichess"} : wait = [NoWait EXCEPT !.client = c]

\* initialize of either client: ValueError when the credentials are missing
\* from the environment; otherwise the session is created and authenticated
\* is set
ClientInitialize ==
    /\ pc = "client_init"
    /\ \E credentials \in BOOLEAN :
         IF credentials
         THEN /\ client_state' = "open"
              /\ authenticated' = TRUE
              /\ log' = log
         ELSE /\ log' = log \cup {"ValueError"}
              /\ UNCHANGED <<client_state, authenticated>>
    /\ pc' = "find"
    /\ UNCHANGED <<current_games, model_ready, game_info, board,
                   moves_history, move_times, evaluations, move,
                   opponent_move, arbiter, sent, stat_vars, running, sd_pc,
                   engine_state, db_state, components, loop_vars, wait>>

\* what the body of find_game comes to once the client is authenticated.
\* ChessComClient: None while a game is held, else the next demo game, which
\* is registered.  LichessClient: a request or a response raises, no game
\* comes of the challenges, or a game has started.
FindGameBody(client) ==
    IF client = "chesscom"
    THEN IF Cardinality(current_games) >= 1
         THEN {[raised |-> FALSE, game |-> NoGame]}
         ELSE {[raised |-> FALSE,
                game |-> [game_id |-> GameId(Cardinality(current_games) + 1),
                          opponent |-> "TestOpponent", color |-> WHITE]]}
    ELSE {[raised |-> TRUE, game |-> NoGame],
          [raised |-> FALSE, game |-> NoGame]}
         \cup {[raised |-> FALSE, game |-> g] : g \in Assignments}

ClientFindGameRaises ==
    /\ pc = "find"
    /\ \E out \in FindGameBody(wait.client) :
         IF out.raised
         THEN /\ pc' = "sleep_backoff"
              /\ loop_errors' = Bump(loop_errors)
              /\ UNCHANGED <<game_info, current_games, empty_finds, log>>
         ELSE /\ pc' = IF out.game = NoGame THEN "sleep_idle" ELSE "session"
              /\ game_info' = out.game
              /\ UNCHANGED <<current_games, empty_finds, loop_errors, log>>
    /\ UNCHANGED <<authenticated, model_ready, board, moves_history,
                   move_times, evaluations, move, opponent_move, arbiter,
                   sent, stat_vars, life_vars, idle_sleeps, backoff_sleeps,
                   wait>>

\* start_playing calls find_game of the client: None without authentication
\* and on every exception of the body (caught and logged), else what the
\* body returns; None sends start_playing to its idle sleep
ClientFindGame ==
    /\ pc = "find"
    /\ IF ~authenticated
       THEN /\ pc' = "sleep_idle"
            /\ empty_finds' = Bump(empty_finds)
            /\ UNCHANGED <<game_info, current_games, log>>
       ELSE \E out \in FindGameBody(wait.client) :
              IF out.raised \/ out.game = NoGame
              THEN /\ pc' = "sleep_idle"
                   /\ empty_finds' = Bump(empty_finds)
                   /\ log' = IF out.raised
                             THEN log \cup {"error_finding_game"} ELSE log
                   /\ UNCHANGED <<game_info, current_games>>
              ELSE /\ pc' = "session"
                   /\ game_info' = out.game
                   /\ current_games' =
                        IF wait.client = "chesscom"
                        THEN current_games \cup {out.game.game_id}
                        ELSE current_games
                   /\ UNCHANGED <<empty_finds, log>>
    /\ UNCHANGED <<authenticated, model_ready, board, moves_history,
                   move_times, evaluations, move, opponent_move, arbiter,
                   sent, stat_vars, life_vars, idle_sleeps, loop_errors,
                   backoff_sleeps, wait>>

NextFind ==
    \/ ClientInitialize
    \/ ClientFindGame
    \/ LoopPlayGame
    \/ LoopIdleSleep
    \/ BackoffSleep

SpecFind == InitFind /\ [][NextFind]_vars

\* ------------------------------------------- one session, run to its end
\* start_playing about to call find_game, components up, empty table
InitSession ==
    /\ pc = "find"
    /\ current_games = {}
    /\ model_ready \in BOOLEAN
    /\ ComponentsUp
    /\ NoSession
    /\ NoCalls
    /\ FreshStats
    /\ wait = NoWait

\* board.is_game_over() covers the 75-move rule and fivefold repetition, so
\* a game has an end: a board of MaxPly half-moves is terminal
GamesEnd == Len(board.move_stack) >= MaxPly => IsGameOver(board)

\* wait_for_opponent_move comes back with a move string
Delivers == WaitForOpponentMove /\ opponent_move' # None

NextSession ==
    \/ FindGame
    \/ IdleSleep
    \/ GetBestMove
    \/ EnginePlayReturns
    \/ (OwnMove /\ GamesEnd')
    \/ WaitForOpponentMove
    \/ (OpponentMove /\ GamesEnd')
    \/ LoopExit
    \/ ProcessFinishedGame

\* every awaited call returns, and the opponent delivers a move on each of
\* its turns sooner or later
SpecSession ==
    /\ InitSession
    /\ [][NextSession]_vars
    /\ WF_vars(NextSession)
    /\ SF_vars(Delivers)

\* ================================================================ claims
\* the step is one of start_playing or play_game, not of the shutdown task
SessionStep == pc' # pc

\* the arbiter has answered and play_game is about to use the answer
ArbiterAnswered == pc = "own_move"

\* the candidate of the Predictive Oracle was usable: model ready, candidate
\* a legal move
CandidateUsable ==
    arbiter.ready /\ arbiter.cand # None /\ arbiter.cand \in arbiter.legal

\* C1: the move _get_best_move returns is a member of the position's
\* legal-move set, whatever the oracles answer.
C1_LegalityInvariant ==
    ArbiterAnswered => move \in arbiter.legal

\* C2: when both oracles fail (model missing or without a candidate, engine
\* call raising) the arbiter still returns a legal move, and the session goes
\* on to push and submit that move instead of ending on the fault.
C2_FallbackLiveness ==
    [][(/\ ArbiterAnswered
        /\ ~CandidateUsable
        /\ arbiter.play = Raise
        /\ Len(board.move_stack) < MaxPly
        /\ SessionStep)
       => (/\ move \in arbiter.legal
           /\ pc' = "loop"
           /\ board'.move_stack = Append(board.move_stack, move)
           /\ sent' = Append(sent, move))]_vars

\* the opponent's string is malformed or is not a legal move of the position
OpponentMoveUnacceptable ==
    /\ pc = "opp_move"
    /\ opponent_move # None
    /\ (~ParsesAsUci(opponent_move) \/ opponent_move \notin board.legal)

\* C3: a malformed or illegal opponent move is not applied (board and move
\* history stay as they are) and the session ends with result 'unknown'.
C3_IllegalOpponentMoveTermination ==
    [][(OpponentMoveUnacceptable /\ SessionStep)
       => (/\ board' = board
           /\ moves_history' = moves_history
           /\ pc' = "finish"
           /\ GetGameResult(board', game_info.color) = "unknown")]_vars

\* C4: a usable candidate whose evaluation is exactly the tolerance below
\* the engine's is accepted; one unit further below it is rejected.
C4_ToleranceBoundary ==
    (ArbiterAnswered /\ CandidateUsable)
    => (/\ (arbiter.meval - arbiter.eeval = 0 - Tolerance
              => (arbiter.path = "model" /\ move = arbiter.cand))
        /\ (arbiter.meval - arbiter.eeval = 0 - Tolerance - 1
              => arbiter.path # "model"))

\* C5: with a usable candidate and healthy oracles the arbiter returns the
\* candidate or the engine's move of the 1.0 budget, never the random move.
C5_CandidateOrEngineMove ==
    (ArbiterAnswered /\ CandidateUsable)
    => (\/ (arbiter.path = "model" /\ move = arbiter.cand)
        \/ (arbiter.path = "engine" /\ move = arbiter.play))

\* C6: without a usable candidate (model not ready, candidate None or not
\* legal) the arbiter returns what the Search Oracle reports for the 1.0
\* budget, and no evaluation was compared.
C6_SearchOnlyVerbatim ==
    (ArbiterAnswered /\ ~CandidateUsable)
    => (/\ arbiter.path = "engine"
        /\ move = EngineGetBestMove(arbiter.play)
        /\ arbiter.meval = 0)

\* C6 witness: the model is ready but gave no candidate, and the engine's
\* move of the second own turn is in hand
C6_Witness ==
    /\ ArbiterAnswered
    /\ arbiter.ready
    /\ arbiter.cand = None
    /\ move \in Moves
    /\ Len(board.move_stack) = 2

\* the result of the record handed off last
LastResult == processed[Len(processed)].result

\* C7: a checkmate with the assigned color to move is a 'loss', a checkmate
\* with the opponent to move is a 'win', and stalemate, insufficient
\* material, the 75-move rule and fivefold repetition are a 'draw', for both
\* assigned colors.
C7_ResultMapping ==
    processed # <<>>
    => (/\ (board.status = "checkmate" /\ Turn(board) = game_info.color
              => LastResult = "loss")
        /\ (board.status = "checkmate" /\ Turn(board) # game_info.color
              => LastResult = "win")
        /\ (board.status \in {"stalemate", "insufficient", "seventyfive",
                              "fivefold"}
              => LastResult = "draw"))

\* C7 witness: Black is the assigned color and is mated
C7_Witness ==
    /\ processed # <<>>
    /\ board.status = "checkmate"
    /\ Turn(board) = BLACK
    /\ game_info.color = BLACK
    /\ LastResult = "loss"

\* the hand-offs made for the current session
HandOffs ==
    { i \in 1..Len(processed) : processed[i].game_id = game_info.game_id }

\* play_game has returned to start_playing
SessionOver == pc \in {"find", "sleep_idle"} /\ game_info # NoGame

\* C8: a session whose board reached a terminal condition is handed to
\* _process_finished_game exactly once, after its last half-move, with a
\* record holding the game id, opponent, color, result, the whole move list,
\* the timing list, the evaluation list, the PGN and the duration; no session
\* is handed off twice.
C8_ExactlyOneHandOff ==
    /\ Cardinality(HandOffs) <= 1
    /\ (SessionOver /\ IsGameOver(board)) => Cardinality(HandOffs) = 1
    /\ \A i \in HandOffs :
         /\ SessionOver
         /\ processed[i].opponent = game_info.opponent
         /\ processed[i].color = game_info.color
         /\ processed[i].result \in Results
         /\ processed[i].moves = board.move_stack
         /\ processed[i].moves = moves_history
         /\ processed[i].move_times = move_times
         /\ processed[i].evaluations = evaluations
         /\ Len(processed[i].evaluations) = Len(board.move_stack)
         /\ processed[i].pgn.moves = board.move_stack
         /\ processed[i].duration = SessionDuration

\* C8 witness: a session of at least two half-moves ended on a terminal board
\* and was handed off
C8_Witness ==
    /\ SessionOver
    /\ IsGameOver(board)
    /\ Len(board.move_stack) >= 2
    /\ Cardinality(HandOffs) = 1

\* C9: a session reaches the hand-off only with a terminal board (result
\* win, loss or draw) or after an opponent string was rejected (result
\* unknown); the loop never ends for any other reason, such as a move count.
C9_HandOffOnlyTerminalOrRejected ==
    /\ pc = "finish"
         => (IsGameOver(board) \/ "invalid_opponent_move" \in log)
    /\ \A i \in HandOffs :
         \/ /\ IsGameOver(board)
            /\ "invalid_opponent_move" \notin log
            /\ processed[i].result \in {"win", "loss", "draw"}
         \/ /\ ~IsGameOver(board)
            /\ "invalid_opponent_move" \in log
            /\ processed[i].result = "unknown"

\* C9 witness: a session handed off with 'unknown' after the opponent's
\* string was rejected on its first turn
C9_Witness ==
    /\ SessionOver
    /\ "invalid_opponent_move" \in log
    /\ Len(moves_history) = 1
    /\ \E i \in HandOffs : processed[i].result = "unknown"

\* C10: an error raised inside the session loop ends play_game normally:
\* the loop of start_playing goes on, no record is handed off, nothing is
\* stored and the counters keep their values.
C10_LoopErrorLeavesNoTrace ==
    [][(/\ pc \in {"loop", "own_move", "opp_move"}
        /\ "error_during_game" \notin log
        /\ "error_during_game" \in log')
       => (/\ pc' = "find"
           /\ processed' = processed
           /\ db' = db
           /\ games_played' = games_played
           /\ wins' = wins
           /\ losses' = losses
           /\ draws' = draws)]_vars

\* C10 witness: a session ended on an error of its loop, with nothing handed
\* off, stored or counted
C10_Witness ==
    /\ SessionOver
    /\ "error_during_game" \in log
    /\ processed = <<>>
    /\ db = <<>>
    /\ games_played = 0

\* the pipeline failed on the hand-off of this step
PipelineFails ==
    /\ pc = "finish"
    /\ "error_during_game" \notin log
    /\ "error_during_game" \in log'

\* C11: when save_game fails, the counters incremented for the game keep
\* their new values, nothing is stored, the failure stays inside play_game
\* and start_playing goes on to its next find_game call.
C11_PipelineFailureKeepsCounters ==
    [][PipelineFails
       => (/\ games_played' = games_played + 1
           /\ wins' + losses' + draws' = wins + losses + draws + 1
           /\ db' = db
           /\ pc' = "find")]_vars

\* C11 witness: the hand-off of a finished session failed to store its
\* record; the game is counted, the table is empty and find_game was called
\* again
C11_Witness ==
    /\ SessionOver
    /\ pc = "sleep_idle"
    /\ "error_during_game" \in log
    /\ Len(processed) = 1
    /\ games_played = 1
    /\ db = <<>>

\* C12: every empty find_game is followed by the idle sleep before the next
\* find_game call: the empty results never outnumber the idle sleeps by
\* more than the one whose sleep is pending, and at a find_game call every
\* earlier empty result has had its sleep.
C12_IdleSleepAfterEmptyFind ==
    /\ empty_finds <= idle_sleeps + 1
    /\ (pc = "find" => empty_finds <= idle_sleeps)
    /\ (pc = "sleep_idle" => empty_finds >= 1)

\* C12 witness: two empty results in a row, each followed by its sleep, and
\* find_game about to be called again
C12_Witness ==
    /\ pc = "find"
    /\ empty_finds >= 2
    /\ idle_sleeps >= 2

\* C13: an exception escaping find_game or play_game is caught by
\* start_playing and followed by the backoff sleep before the next find_game
\* call; start_playing stays at one of the control points of its loop.
C13_BackoffAfterEscapedError ==
    /\ pc \in {"find", "session", "sleep_idle", "sleep_backoff"}
    /\ loop_errors <= backoff_sleeps + 1
    /\ (pc \in {"find", "session", "sleep_idle"}
          => loop_errors <= backoff_sleeps)
    /\ (pc = "sleep_backoff" => loop_errors >= 1)

\* C13 witness: a session was entered after two escaped errors, each
\* followed by its backoff sleep
C13_Witness ==
    /\ pc = "session"
    /\ loop_errors >= 2
    /\ backoff_sleeps >= 2

\* C14: after a session has ended on a rejected opponent move or on a
\* terminal board and was handed off, and as long as no shutdown is
\* requested, a later find_game call returns a new assignment and a new
\* session starts.
C14_NextSessionStarts ==
    (SessionOver /\ "error_during_game" \notin log /\ sd_pc = "none")
    ~> (pc = "loop" \/ sd_pc # "none")

\* C15: after a shutdown signal, once the current session is over, no
\* further find_game call is made: with the shutdown carried out and the
\* session over, start_playing does not go on from its find_game call.
C15_NoFindGameAfterShutdown ==
    [][(sd_pc = "done" /\ SessionOver /\ pc = "find") => pc' = "find"]_vars

\* position of a control point of the shutdown task in the order of
\* ChessLearningBot.shutdown
StageRank(st) ==
    CASE st = "none" -> 0
      [] st = "created" -> 1
      [] st = "client_close" -> 2
      [] st = "engine_quit" -> 3
      [] st = "db_close" -> 4
      [] st = "done" -> 5

\* the step moves the shutdown task strictly past the stage st
Passes(st) ==
    /\ StageRank(sd_pc) < StageRank(st)
    /\ StageRank(st) < StageRank(sd_pc')

\* C16: shutdown clears running first, then closes the client, quits the
\* engine and closes the database connection in that order; a component is
\* closed only at its own stage, and a stage is passed over only when its
\* component does not exist (or is closed already).
C16_ShutdownOrder ==
    [][/\ (sd_pc' # sd_pc
            => /\ StageRank(sd_pc') > StageRank(sd_pc)
               /\ (sd_pc = "created" => ~running')
               /\ (sd_pc = "client_close" => client_state' = "closed")
               /\ (sd_pc = "engine_quit" => engine_state' = "closed")
               /\ (sd_pc = "db_close" => db_state' = "closed")
               /\ (Passes("client_close") => client_state # "open")
               /\ (Passes("engine_quit") => engine_state # "open")
               /\ (Passes("db_close") => db_state # "open"))
       /\ (client_state' = "closed" /\ client_state # "closed"
            => sd_pc = "client_close")
       /\ (engine_state' = "closed" /\ engine_state # "closed"
            => sd_pc = "engine_quit")
       /\ (db_state' = "closed" /\ db_state # "closed"
            => sd_pc = "db_close")
       /\ (running /\ ~running' => sd_pc = "created")]_vars

\* C16 witness: a signal arrived while a session was in progress and the
\* shutdown task has closed the client, the engine and the database
C16_Witness ==
    /\ sd_pc = "done"
    /\ ~running
    /\ client_state = "closed"
    /\ engine_state = "closed"
    /\ db_state = "closed"
    /\ pc \in {"loop", "await_play", "own_move", "opp_move", "finish"}

\* engine requests issued and not yet answered: engine.play awaited by
\* _get_best_move, engine.quit awaited by the shutdown task
EngineOpsInFlight ==
    (IF pc = "await_play" THEN 1 ELSE 0)
    + (IF sd_pc = "engine_quit" THEN 1 ELSE 0)

\* C17: at most one request to the engine is in flight in every reachable
\* state, also while the shutdown task runs during a session.
C17_OneEngineRequest == EngineOpsInFlight <= 1

\* control points inside play_game
SessionPcs == {"loop", "await_play", "own_move", "opp_move", "finish"}

\* C18: one game at a time: current_games never holds more than one entry,
\* and whenever a session exists (in progress or over) the one registered
\* game is that session's; find_game is called only between sessions.
C18_OneGameAtATime ==
    /\ Cardinality(current_games) <= 1
    /\ (game_info # NoGame => current_games = {game_info.game_id})
    /\ (pc \in SessionPcs => game_info # NoGame)

\* C18 witness: find_game was called while current_games held a game and
\* returned no assignment
C18_Witness ==
    /\ pc = "sleep_idle"
    /\ Cardinality(current_games) = 1
    /\ game_info # NoGame

\* C19: update_model is invoked in the hand-off of a game exactly when that
\* game makes games_played a multiple of RetrainEvery.
C19_RetrainEveryTenth ==
    [][(pc = "finish" /\ pc' # pc)
       => (/\ model_updates' \in {model_updates, model_updates + 1}
           /\ (model_updates' = model_updates + 1
                 <=> games_played' % RetrainEvery = 0))]_vars

\* C20: every call of wait_for_opponent_move, of either client, comes back
\* to its caller with a move or with None; it has no control point outside
\* its polling loop and its return (no exception leaves it), and the
\* LichessClient's budget never passes max_wait.
C20_WaitReturns ==
    /\ [](/\ wait.pc \in {"none", "demo_sleep", "request", "stream", "sleep",
                           "returned"}
          /\ wait.timeout <= MaxWait
          /\ (wait.pc = "returned"
                => wait.result \in OppStrings \cup DemoMoves \cup {None}))
    /\ ((wait.pc # "none") ~> (wait.pc = "returned"))

\* C20 witness: the LichessClient gave up with None after its whole budget
\* of polls
C20_Witness ==
    /\ wait.pc = "returned"
    /\ wait.client = "lichess"
    /\ wait.timeout = MaxWait
    /\ wait.result = None

\* wait_for_opponent_move has answered None
EmptyWaitResult == pc = "opp_move" /\ opponent_move = None

\* C21: an empty result of wait_for_opponent_move is no new information:
\* board, move history, timing list and evaluation list stay as they are,
\* nothing is logged or handed off, the session goes on, and the next
\* iteration is again the opponent's turn, so the wait is issued again.
C21_EmptyWaitIsNoNews ==
    [][(EmptyWaitResult /\ SessionStep)
       => (/\ board' = board
           /\ moves_history' = moves_history
           /\ move_times' = move_times
           /\ evaluations' = evaluations
           /\ log' = log
           /\ processed' = processed
           /\ pc' = "loop"
           /\ ~IsGameOver(board')
           /\ Turn(board') # game_info'.color)]_vars

\* C21 witness: after the first own move the wait came back empty
C21_Witness ==
    /\ EmptyWaitResult
    /\ Len(board.move_stack) = 1
    /\ moves_history = board.move_stack

\* play_game is at the start of an iteration or inside a half-move that has
\* not been applied yet
BetweenHalfMoves == pc \in {"loop", "await_play", "own_move", "opp_move"}

\* C22: half-moves are applied one after the other: whenever a half-move is
\* about to be processed, every earlier one is on the board, in the move
\* history and evaluated: the history is the board's move stack, there is one
\* evaluation per half-move and one latency per own move.
C22_HalfMovesInOrder ==
    BetweenHalfMoves
    => (/\ moves_history = board.move_stack
        /\ Len(evaluations) = Len(board.move_stack)
        /\ Len(move_times) = OwnMoves(Len(board.move_stack), game_info.color))

\* C22 witness: the third iteration starts after an own move and a reply
C22_Witness ==
    /\ pc = "loop"
    /\ Len(board.move_stack) = 2
    /\ Len(evaluations) = 2
    /\ Len(move_times) = 1

\* C23: on every own turn the move the arbiter returned is pushed on the
\* board, appended to the history and passed to make_move, once and as the
\* same move, with its latency and its evaluation recorded, before the next
\* half-move is processed.
C23_OwnMoveAppliedSentRecorded ==
    [][(/\ ArbiterAnswered
        /\ Len(board.move_stack) < MaxPly
        /\ SessionStep)
       => (/\ board'.move_stack = Append(board.move_stack, move)
           /\ moves_history' = Append(moves_history, move)
           /\ sent' = Append(sent, move)
           /\ Len(move_times') = Len(move_times) + 1
           /\ Len(evaluations') = Len(evaluations) + 1
           /\ pc' = "loop")]_vars

\* _get_best_move has been invoked and play_game has not yet used its answer
ArbiterInvoked == pc \in {"await_play", "own_move"}

\* C24: the arbiter is only invoked on a board that is not game-over, so the
\* position it sees has legal moves and the random fallback has something
\* to choose from.
C24_ArbiterOnlyOnLiveBoard ==
    ArbiterInvoked
    => (/\ ~IsGameOver(board)
        /\ arbiter.legal = board.legal
        /\ arbiter.legal # {}
        /\ (arbiter.path = "random" => move \in arbiter.legal))

\* C24 witness: the random fallback answered on the second own turn
C24_Witness ==
    /\ ArbiterAnswered
    /\ arbiter.path = "random"
    /\ Len(board.move_stack) = 2
    /\ move \in board.legal

\* the answer of make_move makes no difference to the step
AnswerDiscarded == [][OwnMoveSubmitting(TRUE) <=> OwnMoveSubmitting(FALSE)]_vars

\* the step is an own move whose submission failed: the move was passed to
\* make_move and make_move answered False
SubmissionFails ==
    /\ OwnMoveSubmitting(FALSE)
    /\ sent' = Append(sent, move)

\* C25: a failed submission is left to the backoff of the matchmaking loop:
\* play_game does not go on to the next half-move as if the move had been
\* sent.
C25_SubmissionFailureBacksOff ==
    [][SubmissionFails => pc' # "loop"]_vars

\* the counters have been seeded and every record handed to the pipeline by
\* this process was stored
AllSaved ==
    /\ pc \notin {"init_db", "init_engine", "init_model", "init_bot",
                  "init_failed", "exited", "start"}
    /\ \A i \in 1..Len(processed) :
         \E j \in 1..Len(db) : db[j] = processed[i]

\* C26: while every record was saved, the counters in memory equal the
\* aggregates get_bot_statistics computes from the stored games.
C26_CountersMatchStoredGames ==
    AllSaved
    => [games_played |-> games_played, wins |-> wins, losses |-> losses,
        draws |-> draws] = GetBotStatistics(db)

\* the step records the evaluation of the position it has reached
EvaluationRecorded == Len(evaluations') = Len(evaluations) + 1

\* C27: a recorded evaluation is never negative where White is favored and
\* never positive where Black is favored, whichever side is to move (it is 0
\* when the engine failed).
C27_EvaluationFromWhitesView ==
    [][EvaluationRecorded
       => LET e == evaluations'[Len(evaluations')] IN
          /\ board'.cp > 0 => e >= 0
          /\ board'.cp < 0 => e <= 0]_vars

\* ChessLearningBot.initialize has returned without raising
Initialized ==
    pc \notin {"init_db", "init_engine", "init_model", "init_bot",
               "init_failed", "exited"}

\* the attributes set so far are the first ones of the initialization order
InOrder ==
    /\ Len(components) <= Len(Components)
    /\ components = SubSeq(Components, 1, Len(components))

HandOff == pc = "finish" /\ pc' = "find"

\* C29: the game id of a record handed to save_game is not the id of a
\* game the table already holds.
C29_GameIdsUnique ==
    [][HandOff => GameData.game_id \notin StoredIds(db)]_vars

\* LichessClient.wait_for_opponent_move has returned a move
LichessReturnedMove ==
    /\ wait.pc = "returned"
    /\ wait.client = "lichess"
    /\ wait.result # None

\* C30: a move returned by LichessClient.wait_for_opponent_move was played
\* by the opponent and differs from last_move, with or without a last_move
\* passed by the caller.
C30_ReturnedMoveIsOpponents ==
    LichessReturnedMove
    => (wait.by = "opponent" /\ wait.result # wait.last_move)

\* the PGN of the record handed over last
LastPgn == processed[Len(processed)].pgn

\* C31: the Result header is '1-0' exactly when Black is checkmated, '0-1'
\* exactly when White is checkmated, '1/2-1/2' exactly for the draw
\* conditions and '*' otherwise, for both assigned colors, and the PGN moves
\* are the board's move stack in order.
C31_PgnResultAgreesWithBoard ==
    processed # <<>>
    => (/\ (LastPgn.Result = "1-0"
              <=> (IsCheckmate(board) /\ Turn(board) = BLACK))
        /\ (LastPgn.Result = "0-1"
              <=> (IsCheckmate(board) /\ Turn(board) = WHITE))
        /\ (LastPgn.Result = "1/2-1/2" <=> IsDrawCondition(board))
        /\ (LastPgn.Result = "*"
              <=> (~IsCheckmate(board) /\ ~IsDrawCondition(board)))
        /\ LastPgn.moves = board.move_stack)

\* C31 witness: the bot played Black and mated White after two half-moves;
\* the header is '0-1'
C31_Witness ==
    /\ processed # <<>>
    /\ game_info.color = BLACK
    /\ IsCheckmate(board)
    /\ Turn(board) = WHITE
    /\ Len(board.move_stack) = 2
    /\ LastPgn.Result = "0-1"
    /\ LastPgn.moves = board.move_stack

\* C32: find_game never raises: without authentication, and when its body
\* raises, start_playing gets None and goes to its idle sleep with no game
\* assigned, never to its except clause; authenticated is set only by an
\* initialize that found the credentials and opened the session.
C32_FindGameNeverRaises ==
    /\ [][pc = "find"
          => (/\ pc' \in {"sleep_idle", "session"}
              /\ loop_errors' = loop_errors
              /\ (~authenticated
                    => (pc' = "sleep_idle" /\ game_info' = game_info))
              /\ (pc' = "session" => game_info' # NoGame))]_vars
    /\ [](authenticated
           => (client_state = "open" /\ "ValueError" \notin log))

\* C32 witness: the LichessClient's find_game raised in its body; the error
\* is logged and start_playing is in its idle sleep
C32_Witness ==
    /\ wait.client = "lichess"
    /\ authenticated
    /\ pc = "sleep_idle"
    /\ "error_finding_game" \in log
    /\ empty_finds >= 1
    /\ loop_errors = 0

\* C33: the counters in memory add up: every game counted is a win, a loss
\* or a draw, and there are no more wins than games.
C33_CountersAddUp ==
    /\ games_played = wins + losses + draws
    /\ wins <= games_played

\* shutdown has closed the client session, quit the engine and closed the
\* database connection
AllShutDown ==
    /\ sd_pc = "done"
    /\ client_state = "closed"
    /\ engine_state = "closed"
    /\ db_state = "closed"

\* the step calls a method of the client, the engine or the database
\* manager: find_game; get_best_move; evaluate_position and make_move;
\* wait_for_opponent_move; evaluate_position; save_game
UsesComponent ==
    \/ FindGame
    \/ GetBestMove
    \/ OwnMove
    \/ WaitForOpponentMove
    \/ (OpponentMove /\ Len(evaluations') > Len(evaluations))
    \/ ProcessFinishedGame

\* C34: once shutdown has closed all three components, no step of
\* start_playing or play_game calls one of them.
C34_NoUseAfterShutdown ==
    [][AllShutDown => ~UsesComponent]_vars

\* C35: when make_move answered False, the move is not kept on the board
\* and in the history of a session that goes on to the opponent's turn.
C35_RefusedMoveNotKept ==
    [][(SubmissionFails /\ pc' = "loop")
       => (/\ board'.move_stack = board.move_stack
           /\ moves_history' = moves_history)]_vars

Choosing == GetBestMove \/ EnginePlayReturns

\* C37: choosing a move leaves the board, its move stack and the history as
\* they are; on an own turn the board changes only by the one push of the
\* move the arbiter returned.
C37_ChoosingLeavesBoard ==
    [][/\ (Choosing => (board' = board /\ moves_history' = moves_history))
       /\ (OwnMove
            => (\/ board' = board
                \/ board'.move_stack = Append(board.move_stack, move)))]_vars

\* C37 witness: the engine's move came back from the arbiter, the board is
\* still the start position
C37_Witness ==
    /\ ArbiterAnswered
    /\ arbiter.path = "engine"
    /\ move \in board.legal
    /\ board = StartBoard
    /\ moves_history = <<>>

\* C38: when initialize failed and the process has exited, no engine
\* process and no database connection that was started is left without
\* its quit or close.
C38_FailedInitCleansUp ==
    pc = "exited" => (engine_state # "open" /\ db_state # "open")

====
